---- MODULE Spec2Model ----
(***************************************************************************)
(* Volatility-Forecasting-GARCH: the Streamlit script (app.py), the fit    *)
(* wrappers (volatility_models.py) and the data helpers (data_fetcher.py). *)
(*                                                                         *)
(* Spec     one run of the script: sidebar, data fetch, the three model    *)
(*          tabs.                                                          *)
(* SpecLib  direct calls of the library functions on small inputs.         *)
(* SpecParams  the coefficient tables of tab2 and tab3 and                  *)
(*          extract_model_parameters on any short list of labels.          *)
(*                                                                         *)
(* The arch estimator and the Yahoo provider are external: what they       *)
(* return (or that they raise) is chosen by the environment.  Floating     *)
(* point values are integers in a fixed unit; NaN and the infinities are   *)
(* kept as separate kinds of value.                                        *)
(***************************************************************************)
EXTENDS Integers, Sequences, FiniteSets, TLC

VARIABLES
    pc,               \* position of the script run
    models,           \* st.radio "Models" value (a string, as characters)
    forecast_days,    \* st.slider "Forecast Period (Days)" value
    provider,         \* what ticker.history did in this run
    data,             \* result of DataFetcher.fetch_stock_data
    returns,          \* app.py `returns` (a Series, summarised)
    messages,         \* st.error / st.warning / st.success / st.info shown
    garch_results,    \* app.py globals assigned by the tabs
    garch_forecast,
    egarch_results,
    egarch_forecast,
    better_model,     \* tab4 recommendation
    aic_diff,
    fit_calls,        \* the fit_garch / fit_egarch calls of the last step
    fit_env,          \* what the estimator would do for each family in that step
    prices,           \* SpecLib: the Close column handed to the helpers
    lib_op,           \* SpecLib: the library function called last
    lib_returns,      \* SpecLib: the Series calculate_returns returned
    validation,       \* SpecLib: the tuple validate_data returned
    comparison,       \* SpecLib: the dict compare_models returned
    traces,           \* conditional-volatility traces added to the tab figures
    params,           \* SpecParams: results.params / results.std_err, row by row
    param_out,        \* SpecParams: what the parameter code resolved and showed
    call_args,        \* SpecLib: the arguments of the library call made
    call_env,         \* SpecLib: what the provider / estimator did during it
    caller_returns,   \* SpecLib: the caller's returns Series after the call
    rolling,          \* SpecLib: the DataFrame rolling_forecast returned, and
                      \*          the windows it fitted
    data_dict,        \* SpecLib: the dict fetch_multiple_assets returned
    fetch_log,        \* SpecLib: the symbols fetch_stock_data was called with
    interval,         \* SpecLib: the bounds the confidence interval call returned
    session_state,    \* SpecSession: st.session_state, kept from run to run
    sidebar_run       \* SpecSession: the asset widgets of the current run

vars == <<pc, models, forecast_days, provider, data, returns, messages,
          garch_results, garch_forecast, egarch_results, egarch_forecast,
          better_model, aic_diff, fit_calls, fit_env,
          prices, lib_op, lib_returns, validation, comparison,
          traces, params, param_out,
          call_args, call_env, caller_returns, rolling, data_dict, fetch_log,
          interval, session_state, sidebar_run>>

appVars == <<pc, models, forecast_days, provider, data, returns, messages,
             garch_results, garch_forecast, egarch_results, egarch_forecast,
             better_model, aic_diff, traces>>

\* variables of SpecParams
extVars == <<params, param_out>>

\* what the data helpers of SpecLib work on
libDataVars == <<prices, lib_returns, validation, comparison>>

\* the confidence interval call and the asset widgets of the sidebar
sideVars == <<interval, session_state, sidebar_run>>

\* the record of one direct library call
callVars == <<call_args, call_env, caller_returns, rolling, data_dict, fetch_log>>

libVars == <<prices, lib_op, lib_returns, validation, comparison>>

----------------------------------------------------------------------------
(* Bounds of the model *)

\* largest per-period volatility level (in input units) the estimator reports
MaxSigma == 2
\* AIC values are drawn from 0..MaxAIC
MaxAIC == 1
\* rows with a NaN cell in the provider's frame: 0..MaxNaNRows
MaxNaNRows == 1
\* SpecLib: Close columns have 0..MaxLen rows
MaxLen == 3
\* SpecLib: prices are drawn from -MaxNegPrice..MaxPrice (and NaN)
MaxPrice == 3
MaxNegPrice == 1
\* SpecParams: the estimator reports 0..MaxParams coefficients
MaxParams == 3
\* SpecLib: rolling_forecast gets 0..MaxRollLen returns, a window of
\* 1..MaxWindow and a horizon of 0..MaxHorizon (fit_garch called directly:
\* 1..MaxHorizon)
MaxRollLen == 4
MaxWindow == 2
MaxHorizon == 2
\* SpecLib: fetch_multiple_assets gets 0..MaxSymbols symbols
MaxSymbols == 2
\* SpecLib: the confidence interval is computed for forecasts of 0..MaxForecast;
\* constant forecast arrays have up to MaxForecastLen steps
MaxForecast == 2
MaxForecastLen == 30

----------------------------------------------------------------------------
(* Program constants *)

ForecastDaysMin == 5
ForecastDaysMax == 60
DefaultP == 1
DefaultQ == 1
DefaultForecastPeriods == 20
CompareForecastPeriods == 1
ReturnsScale == 100
VarianceRescale == 10000
FetchMinRows == 100
AppAdvisoryRows == 100
AppMinRows == 50
DefaultMinObservations == 100
PercentFactor == 100
SixDecimals == 1000000

----------------------------------------------------------------------------
(* Strings whose characters matter (Python `in` on str is a substring test) *)

GARCH11 == <<"G", "A", "R", "C", "H", "(", "1", ",", "1", ")">>
EGARCH11 == <<"E">> \o GARCH11
BOTH == <<"B", "o", "t", "h">>
ModelOptions == {GARCH11, EGARCH11, BOTH}

\* Python: sub in s, for two str
StrIn(sub, s) ==
    \E i \in 0..(Len(s) - Len(sub)) : SubSeq(s, i + 1, i + Len(sub)) = sub

\* Python None where a DataFrame is expected
None == [none |-> TRUE, len |-> 0]
Frame(n) == [none |-> FALSE, len |-> n]

\* A pandas Series of returns, summarised: n observations, each `scale`
\* times its value in percent
Series(n, scale) == [n |-> n, scale |-> scale]
NoSeries == Series(0, 0)

----------------------------------------------------------------------------
(* Floating point values: a rational n/d (d > 0), NaN, or an infinity.      *)
(* A logarithm is a multiple of 1/LnUnit.                                   *)

Num(n) == [kind |-> "num", n |-> n, d |-> 1]
Rat(n, d) == [kind |-> "num", n |-> n, d |-> d]
NaN == [kind |-> "nan", n |-> 0, d |-> 1]
PInf == [kind |-> "pinf", n |-> 0, d |-> 1]
NInf == [kind |-> "ninf", n |-> 0, d |-> 1]

\* a / b
FloatDiv(a, b) ==
    IF a.kind = "nan" \/ b.kind = "nan" THEN NaN
    ELSE IF a.kind # "num" \/ b.kind # "num" THEN NaN
    ELSE IF b.n = 0
         THEN (IF a.n > 0 THEN PInf ELSE IF a.n < 0 THEN NInf ELSE NaN)
    ELSE IF b.n > 0 THEN Rat(a.n * b.d, a.d * b.n)
    ELSE Rat(0 - a.n * b.d, 0 - a.d * b.n)

\* a - 1
FloatSub1(a) == IF a.kind = "num" THEN Rat(a.n - a.d, a.d) ELSE a

\* a * c for an integer c > 0
FloatMul(a, c) == IF a.kind = "num" THEN Rat(a.n * c, a.d) ELSE a

LnUnit == 1000000
\* ln of the primes the bounded prices are made of, in 1/LnUnit
LnPrime(q) ==
    CASE q = 2 -> 693147
      [] q = 3 -> 1098612
      [] q = 5 -> 1609438
      [] q = 7 -> 1945910
      [] OTHER -> 0

SmallestFactor(n) == CHOOSE f \in 2..n : n % f = 0 /\ \A g \in 2..(f - 1) : n % g # 0

RECURSIVE LnMicro(_)
\* ln(n) for an integer n >= 1, in 1/LnUnit
LnMicro(n) ==
    IF n <= 1 THEN 0
    ELSE LnPrime(SmallestFactor(n)) + LnMicro(n \div SmallestFactor(n))

\* np.log
np_log(a) ==
    IF a.kind = "nan" \/ a.kind = "ninf" THEN NaN
    ELSE IF a.kind = "pinf" THEN PInf
    ELSE IF a.n < 0 THEN NaN
    ELSE IF a.n = 0 THEN NInf
    ELSE Rat(LnMicro(a.n) - LnMicro(a.d), LnUnit)

----------------------------------------------------------------------------
(* pandas helpers: a Series is a sequence of [idx, val], idx the row label  *)

ToSeries(col) == [k \in 1..Len(col) |-> [idx |-> k, val |-> col[k]]]

\* s.shift(1)
shift_Lead(s) ==
    [k \in 1..Len(s) |-> [idx |-> s[k].idx,
                           val |-> IF k = Len(s) THEN NaN ELSE s[k + 1].val]]
shift(s) ==
    [k \in 1..Len(s) |-> [idx |-> s[k].idx,
                           val |-> IF k = 1 THEN NaN ELSE s[k - 1].val]]

\* s / t, row by row
SeriesDiv(s, t) ==
    [k \in 1..Len(s) |-> [idx |-> s[k].idx, val |-> FloatDiv(s[k].val, t[k].val)]]

\* np.log(s)
SeriesLog(s) == [k \in 1..Len(s) |-> [idx |-> s[k].idx, val |-> np_log(s[k].val)]]

\* s - 1
SeriesSub1(s) == [k \in 1..Len(s) |-> [idx |-> s[k].idx, val |-> FloatSub1(s[k].val)]]

\* s * c
SeriesMul(s, c) == [k \in 1..Len(s) |-> [idx |-> s[k].idx, val |-> FloatMul(s[k].val, c)]]

IsNotNaN(e) == e.val.kind # "nan"
\* s.dropna(): the infinities are kept
dropna(s) == SelectSeq(s, IsNotNaN)

----------------------------------------------------------------------------
(* numpy helpers *)

\* np.sqrt on a non-negative value (exact on the perfect squares used here)
Sqrt(n) == CHOOSE r \in 0..n : r * r <= n /\ (r + 1) * (r + 1) > n

\* np.sqrt on an array
np_sqrt(arr) == [k \in 1..Len(arr) |-> Sqrt(arr[k])]

----------------------------------------------------------------------------
(* The arch estimator (external): the environment chooses what one         *)
(* model.fit / results.get_forecast pair does.  sigma is the per-period    *)
(* volatility level of the series in the unit of the returns passed to     *)
(* fit_garch / fit_egarch; the estimator works on the series it is given,  *)
(* so on a series multiplied by c it reports c * sigma.                    *)

\* The estimates of omega, alpha[1], beta[1], in tenths; omega is in the
\* squared unit of the series.  The optimizer's constraints are omega > 0,
\* alpha >= 0, beta >= 0 and alpha + beta <= 1, none of them strict at the
\* upper end.
Coefs(omega, alpha, beta) == [omega |-> omega, alpha |-> alpha, beta |-> beta]
NoCoefs == Coefs(0, 0, 0)
\* alpha = 0.1, beta = 0.8 and the omega whose unconditional variance
\* omega / (1 - alpha - beta) is s^2, the level of the series
InteriorCoefs(s) == Coefs(s * s, 1, 8)
BoundaryCoefs == Coefs(1, 2, 8)

\* converged is results.convergence_flag == 0
EnvFitFails ==
    [fit_ok |-> FALSE, forecast_ok |-> FALSE, sigma |-> 0, aic |-> 0,
     converged |-> FALSE, coefs |-> NoCoefs]
EnvForecastFails(s) ==
    [fit_ok |-> TRUE, forecast_ok |-> FALSE, sigma |-> s, aic |-> 0,
     converged |-> TRUE, coefs |-> InteriorCoefs(s)]
EnvOk(s, a) ==
    [fit_ok |-> TRUE, forecast_ok |-> TRUE, sigma |-> s, aic |-> a,
     converged |-> TRUE, coefs |-> InteriorCoefs(s)]
\* the optimizer stops without converging; fit() still returns a result
EnvNotConverged == [EnvOk(1, 0) EXCEPT !.converged = FALSE]
\* the optimizer converges to a point on the edge of the constraint set
EnvOnBoundary == [EnvOk(1, 0) EXCEPT !.coefs = BoundaryCoefs]
EnvOutcomes ==
    {EnvFitFails, EnvForecastFails(1), EnvNotConverged, EnvOnBoundary}
        \cup {EnvOk(s, a) : s \in 1..MaxSigma, a \in 0..MaxAIC}
NoEnv ==
    [fit_ok |-> FALSE, forecast_ok |-> FALSE, sigma |-> 0, aic |-> -1,
     converged |-> FALSE, coefs |-> NoCoefs]

NoResults == [vol |-> "None", p |-> 0, q |-> 0, nobs |-> 0, scale |-> 0,
              sigma |-> 0, aic |-> 0, names |-> <<>>,
              converged |-> FALSE, coefs |-> NoCoefs]

\* The specification arch_model builds from the keywords of lines 55-61 and
\* 115-121.  mean and o are not passed, so they are the library's defaults,
\* mean='Constant' and o=0.
arch_model(vol, p, q) ==
    [mean |-> "Constant", vol |-> vol, p |-> p, o |-> 0, q |-> q]

\* results.params.index: the mean's coefficient, then omega, p alphas,
\* o gammas, q betas
Coefficient(name, lag) == [name |-> name, lag |-> lag]
param_names(am) ==
    (IF am.mean = "Constant" THEN <<Coefficient("mu", 0)>> ELSE <<>>)
        \o <<Coefficient("omega", 0)>>
        \o [k \in 1..am.p |-> Coefficient("alpha", k)]
        \o [k \in 1..am.o |-> Coefficient("gamma", k)]
        \o [k \in 1..am.q |-> Coefficient("beta", k)]

\* arch_model(returns_std, vol=vol, p=p, q=q, rescale=False).fit(disp='off')
arch_fit(returns_std, vol, p, q, env) ==
    [vol |-> vol, p |-> p, q |-> q, nobs |-> returns_std.n,
     scale |-> returns_std.scale, sigma |-> env.sigma * returns_std.scale,
     aic |-> env.aic, names |-> param_names(arch_model(vol, p, q)),
     converged |-> env.converged,
     coefs |-> Coefs(env.coefs.omega * returns_std.scale * returns_std.scale,
                     env.coefs.alpha, env.coefs.beta)]

\* results.get_forecast(horizon=h).variance.values[-1, :]
forecast_variance_row(results, horizon) ==
    [k \in 1..horizon |-> results.sigma * results.sigma]

----------------------------------------------------------------------------
(* volatility_models.py *)

\* returns * 100
returns_std_of(rets) == Series(rets.n, rets.scale * ReturnsScale)

\* forecast.variance.values[-1, :] / 10000
RescaleVariance_NotSquared(row) == [k \in 1..Len(row) |-> row[k] \div ReturnsScale]
RescaleVariance(row) == [k \in 1..Len(row) |-> row[k] \div VarianceRescale]

\* model.fit is called once, inside the try
FitAttempts == 1

Raised(attempts) ==
    [raised |-> TRUE, attempts |-> attempts, results |-> NoResults, forecast |-> <<>>]

\* the try body shared, line for line, by fit_garch and fit_egarch
FitAndForecast(rets, vol, p, q, forecast_periods, env) ==
    LET returns_std == returns_std_of(rets)
    IN  IF ~env.fit_ok
        THEN Raised(FitAttempts)
        ELSE LET results == arch_fit(returns_std, vol, p, q, env)
             IN  IF ~env.forecast_ok
                 THEN Raised(FitAttempts)
                 ELSE LET forecast_variance ==
                              RescaleVariance(
                                  forecast_variance_row(results, forecast_periods))
                          forecast_volatility == np_sqrt(forecast_variance)
                      IN  [raised |-> FALSE, attempts |-> FitAttempts,
                           results |-> results, forecast |-> forecast_volatility]

fit_garch(rets, p, q, forecast_periods, env) ==
    FitAndForecast(rets, "Garch", p, q, forecast_periods, env)

fit_egarch(rets, p, q, forecast_periods, env) ==
    FitAndForecast(rets, "EGarch", p, q, forecast_periods, env)

\* one entry of fit_calls: the call, what the estimator did, what came back
Call(fn, caller, p, q, forecast_periods, env, out) ==
    [fn |-> fn, caller |-> caller, p |-> p, q |-> q,
     forecast_periods |-> forecast_periods, env |-> env,
     raised |-> out.raised, attempts |-> out.attempts,
     results |-> out.results, forecast |-> out.forecast]

\* lines 52 and 112: `returns_std = returns * 100` builds a new Series under
\* a new name; `returns` stays bound to the object the caller passed.  The
\* two objects after the statement.
Standardize_InPlace(rets) ==
    [returns |-> returns_std_of(rets), returns_std |-> returns_std_of(rets)]
Standardize(rets) ==
    [returns |-> rets, returns_std |-> returns_std_of(rets)]

\* returns.iloc[a:b] shares its values with returns: what a callee does to
\* the slice in place shows in the series it was cut from
WriteBack(base, slice_before, slice_after) ==
    IF slice_after = slice_before THEN base
    ELSE [base EXCEPT !.scale = slice_after.scale]

NoArgs == [fn |-> "none"]
NoRolling == [Date |-> <<>>, Forecast |-> <<>>, fits |-> <<>>]

\* returns.iloc[i-window:i]: the 0-based positions start..stop-1
WindowSlice_FromStart(i, window) == [start |-> 0, stop |-> i]
WindowSlice(i, window) == [start |-> i - window, stop |-> i]

\* len(returns.iloc[start:stop]) for a series of n rows, 0 <= start
SliceLen(n, slice) ==
    Cardinality({j \in 0..(n - 1) : slice.start <= j /\ j < slice.stop})

\* lines 212-231: the body of the loop for one i (0-based position); acc is
\* [Date, Forecast, fits, calls, returns].  The k-th row label of returns is
\* k, so returns.index[j] is j + 1.  fits lists the window of every
\* iteration and whether it gave a row.
RollingStep(acc, i, window, forecast_horizon, model_type, env) ==
    LET slice == WindowSlice(i, window)
        returns_window == Series(SliceLen(acc.returns.n, slice), acc.returns.scale)
        fn == IF model_type = "GARCH" THEN "fit_garch" ELSE "fit_egarch"
        out == IF model_type = "GARCH"
               THEN fit_garch(returns_window, DefaultP, DefaultQ, forecast_horizon, env)
               ELSE fit_egarch(returns_window, DefaultP, DefaultQ, forecast_horizon, env)
        call == Call(fn, "rolling_forecast", DefaultP, DefaultQ, forecast_horizon,
                     env, out)
        after == WriteBack(acc.returns, returns_window,
                           Standardize(returns_window).returns)
    IN  IF out.raised \/ Len(out.forecast) = 0
        THEN [acc EXCEPT !.calls = Append(@, call), !.returns = after,
                         !.fits = Append(@, [i |-> i, slice |-> slice, row |-> FALSE])]
        ELSE [Date |-> Append(acc.Date, i + forecast_horizon + 1),
              Forecast |-> Append(acc.Forecast, out.forecast[Len(out.forecast)]),
              fits |-> Append(acc.fits, [i |-> i, slice |-> slice, row |-> TRUE]),
              calls |-> Append(acc.calls, call),
              returns |-> after]

\* for i in range(window, len(returns) - forecast_horizon); envs[i] is what
\* the estimator does in iteration i
RECURSIVE RollingLoop(_, _, _, _, _, _, _)
RollingLoop(acc, i, stop, window, forecast_horizon, model_type, envs) ==
    IF i >= stop THEN acc
    ELSE RollingLoop(RollingStep(acc, i, window, forecast_horizon, model_type, envs[i]),
                     i + 1, stop, window, forecast_horizon, model_type, envs)

RollingRange(rets, window, forecast_horizon) ==
    window..(rets.n - forecast_horizon - 1)

\* lines 191-236
rolling_forecast(rets, window, forecast_horizon, model_type, envs) ==
    RollingLoop([Date |-> <<>>, Forecast |-> <<>>, fits |-> <<>>, calls |-> <<>>,
                 returns |-> rets],
                window, rets.n - forecast_horizon, window, forecast_horizon,
                model_type, envs)

\* lines 238-261: calculate_forecast_confidence_interval.  confidence_level
\* is in hundredths, z_score in thousandths, the bounds in millionths of the
\* forecast's unit.
z_score(confidence_level) == IF confidence_level = 95 THEN 1960 ELSE 1645

\* np.sqrt(k) in hundredths, rounded down
SqrtCenti(k) ==
    CHOOSE r \in 0..(100 * k) : r * r <= 10000 * k /\ (r + 1) * (r + 1) > 10000 * k

\* z_score * std_error[k], with std_error[k] = forecast[k] * sqrt(k) * 0.1
ZTimesStdError(forecast_volatility, confidence_level, k) ==
    z_score(confidence_level) * forecast_volatility[k] * SqrtCenti(k)

\* np.maximum(forecast_volatility - z_score * std_error, 0)
lower_bound_Unclipped(forecast_volatility, confidence_level) ==
    [k \in 1..Len(forecast_volatility) |->
        forecast_volatility[k] * 1000000
            - ZTimesStdError(forecast_volatility, confidence_level, k)]
lower_bound(forecast_volatility, confidence_level) ==
    [k \in 1..Len(forecast_volatility) |->
        LET v == forecast_volatility[k] * 1000000
                     - ZTimesStdError(forecast_volatility, confidence_level, k)
        IN  IF v > 0 THEN v ELSE 0]

upper_bound(forecast_volatility, confidence_level) ==
    [k \in 1..Len(forecast_volatility) |->
        forecast_volatility[k] * 1000000
            + ZTimesStdError(forecast_volatility, confidence_level, k)]

calculate_forecast_confidence_interval(forecast_volatility, confidence_level) ==
    [lower |-> lower_bound(forecast_volatility, confidence_level),
     upper |-> upper_bound(forecast_volatility, confidence_level)]

NoInterval == [lower |-> <<>>, upper |-> <<>>]

----------------------------------------------------------------------------
(* data_fetcher.py: fetch_stock_data *)

\* the provider's answer: it raises, returns None, or returns a frame of
\* `rows` rows of which `nan_rows` hold a NaN cell
ProviderRaises == [kind |-> "raises", rows |-> 0, nan_rows |-> 0]
ProviderNone == [kind |-> "none", rows |-> 0, nan_rows |-> 0]
ProviderFrame(rows, nan_rows) == [kind |-> "frame", rows |-> rows, nan_rows |-> nan_rows]
NoProvider == [kind |-> "unasked", rows |-> 0, nan_rows |-> 0]

\* row counts on both sides of the two thresholds
RowChoices ==
    {0, AppMinRows - 1, AppMinRows, FetchMinRows - 1, FetchMinRows, FetchMinRows + 1}

ProviderOutcomes ==
    {ProviderRaises, ProviderNone}
        \cup {ProviderFrame(r, n) : r \in RowChoices, n \in 0..MaxNaNRows}

\* len(data.dropna()) for a frame the provider returned
CleanedLen(prov) ==
    IF prov.nan_rows > prov.rows THEN 0 ELSE prov.rows - prov.nan_rows

fetch_stock_data(prov) ==
    IF prov.kind = "raises" THEN None
    ELSE IF prov.kind = "none" \/ prov.rows = 0 THEN None
    ELSE IF CleanedLen(prov) < FetchMinRows THEN None
    ELSE Frame(CleanedLen(prov))

\* lines 113-119: the body of the loop for one symbol; acc is
\* [data_dict, fetched], prov what the provider does for this fetch
FetchStep_KeepsNone(acc, symbol, prov) ==
    LET d == fetch_stock_data(prov)
    IN  [data_dict |-> (symbol :> d) @@ acc.data_dict,
         fetched |-> Append(acc.fetched, symbol)]
FetchStep(acc, symbol, prov) ==
    LET d == fetch_stock_data(prov)
    IN  [data_dict |-> IF ~d.none THEN (symbol :> d) @@ acc.data_dict
                       ELSE acc.data_dict,
         fetched |-> Append(acc.fetched, symbol)]

RECURSIVE FetchLoop(_, _, _, _)
FetchLoop(acc, k, symbols, provs) ==
    IF k > Len(symbols) THEN acc
    ELSE FetchLoop(FetchStep(acc, symbols[k], provs[k]), k + 1, symbols, provs)

\* lines 98-121; provs[k] is the provider's answer to the k-th fetch
fetch_multiple_assets(symbols, provs) ==
    FetchLoop([data_dict |-> <<>>, fetched |-> <<>>], 1, symbols, provs)

----------------------------------------------------------------------------
(* Coefficient labels and the code that resolves them to roles:             *)
(* app.py lines 322-376 and 468-543, extract_model_parameters.              *)
(* results.params and results.std_err are one sequence of rows              *)
(* [label, value, se]; the labels of a pandas index built by the estimator  *)
(* are distinct and the values are floats (possibly NaN).                   *)

UpperLetters == <<"A", "B", "C", "D", "E", "F", "G", "H", "I", "J", "K", "L", "M",
                  "N", "O", "P", "Q", "R", "S", "T", "U", "V", "W", "X", "Y", "Z">>
LowerLetters == <<"a", "b", "c", "d", "e", "f", "g", "h", "i", "j", "k", "l", "m",
                  "n", "o", "p", "q", "r", "s", "t", "u", "v", "w", "x", "y", "z">>

\* Python: s.lower()
Lower(s) ==
    [i \in 1..Len(s) |->
        IF \E k \in 1..Len(UpperLetters) : UpperLetters[k] = s[i]
        THEN LowerLetters[CHOOSE k \in 1..Len(UpperLetters) : UpperLetters[k] = s[i]]
        ELSE s[i]]

Index1 == <<"[", "1", "]">>
S_mu == <<"m", "u">>
S_omega == <<"o", "m", "e", "g", "a">>
S_Constant == <<"C", "o", "n", "s", "t", "a", "n", "t">>
S_const == <<"c", "o", "n", "s", "t">>
S_CONST == <<"C", "O", "N", "S", "T">>
S_alpha == <<"a", "l", "p", "h", "a">>
S_beta == <<"b", "e", "t", "a">>
S_gamma == <<"g", "a", "m", "m", "a">>
S_leverage == <<"l", "e", "v", "e", "r", "a", "g", "e">>
S_asymmetry == <<"a", "s", "y", "m", "m", "e", "t", "r", "y">>
S_alpha1 == S_alpha \o Index1
S_beta1 == S_beta \o Index1
S_gamma1 == S_gamma \o Index1

\* the labels the environment's estimator may give its coefficients
LabelChoices ==
    {S_mu, S_omega, S_Constant, S_const, S_CONST, S_alpha1, S_beta1, S_gamma1,
     S_leverage}

\* Python None where a float is expected
PyNone == [kind |-> "none", n |-> 0, d |-> 1]

MinOf(S) == CHOOSE m \in S : \A k \in S : m <= k

\* key in params
HasLabel(ps, key) == \E i \in 1..Len(ps) : ps[i].label = key
\* params[key], std_err[key]
RowOf(ps, key) == ps[CHOOSE i \in 1..Len(ps) : ps[i].label = key]

\* a resolved role: the value, its standard error, and the step that set it
Resolved(value, se, how) == [value |-> value, se |-> se, how |-> how]
Unresolved == Resolved(PyNone, PyNone, "none")

\* lines 329-342 / 475-488: the loop over the known names, then the first row
OmegaKeys == <<S_Constant, S_const, S_mu>>
ResolveOmega(ps) ==
    LET hits == {k \in 1..Len(OmegaKeys) : HasLabel(ps, OmegaKeys[k])}
    IN  IF hits # {}
        THEN LET row == RowOf(ps, OmegaKeys[MinOf(hits)])
             IN  Resolved(row.value, row.se, "exact")
        ELSE IF Len(ps) > 0
        THEN Resolved(ps[1].value, ps[1].se, "position")
        ELSE Unresolved

\* lines 344-360 / 490-521: the first label whose lower case contains one of
\* the needles; no other step
ResolveBySubstring_OrFirst(ps, needles) ==
    LET hits == {i \in 1..Len(ps) : \E g \in needles : StrIn(g, Lower(ps[i].label))}
    IN  IF hits # {}
        THEN Resolved(ps[MinOf(hits)].value, ps[MinOf(hits)].se, "substring")
        ELSE IF Len(ps) > 0
        THEN Resolved(ps[1].value, ps[1].se, "position")
        ELSE Unresolved
ResolveBySubstring(ps, needles) ==
    LET hits == {i \in 1..Len(ps) : \E g \in needles : StrIn(g, Lower(ps[i].label))}
    IN  IF hits # {}
        THEN Resolved(ps[MinOf(hits)].value, ps[MinOf(hits)].se, "substring")
        ELSE Unresolved

AlphaNeedles == {S_alpha}
BetaNeedles == {S_beta}
GammaNeedles == {S_gamma, S_leverage, S_asymmetry}

\* lines 363-366 / 524-527: format_param; a number is shown with six decimals
NA == [text |-> "N/A", micro |-> 0]
format_param(val) ==
    IF val.kind = "none" \/ val.kind = "nan"
    THEN NA
    ELSE [text |-> val.kind, micro |-> (val.n * SixDecimals) \div val.d]

TableRow(parameter, r) ==
    [parameter |-> parameter,
     coefficient |-> format_param(r.value),
     std_error |-> format_param(r.se)]

NoParamOut ==
    [omega |-> Unresolved, alpha |-> Unresolved, beta |-> Unresolved,
     gamma |-> Unresolved, table |-> <<>>, shown |-> {}, printed |-> {},
     dict |-> <<>>]

\* lines 322-376: the parameter table of tab2
GarchParamTable(ps) ==
    LET omega == ResolveOmega(ps)
        alpha == ResolveBySubstring(ps, AlphaNeedles)
        beta == ResolveBySubstring(ps, BetaNeedles)
    IN  [omega |-> omega, alpha |-> alpha, beta |-> beta, gamma |-> Unresolved,
         table |-> <<TableRow("omega", omega), TableRow("alpha", alpha),
                     TableRow("beta", beta)>>,
         shown |-> {"params_garch"},
         printed |-> {"debug_available_params"},
         dict |-> <<>>]

\* lines 468-543: the parameter table of tab3 and the note under it
EgarchParamTable(ps) ==
    LET omega == ResolveOmega(ps)
        alpha == ResolveBySubstring(ps, AlphaNeedles)
        beta == ResolveBySubstring(ps, BetaNeedles)
        gamma == ResolveBySubstring(ps, GammaNeedles)
    IN  [omega |-> omega, alpha |-> alpha, beta |-> beta, gamma |-> gamma,
         table |-> <<TableRow("omega", omega), TableRow("alpha", alpha),
                     TableRow("beta", beta), TableRow("gamma", gamma)>>,
         shown |-> {"params_egarch",
                    IF gamma.value.kind = "none" THEN "note_gamma_not_estimated"
                    ELSE "note_gamma_leverage"},
         printed |-> {"debug_available_params"} \cup
                     (IF gamma.value.kind = "none" THEN {} ELSE {"found_gamma"}),
         dict |-> <<>>]

\* results.params.get(key, np.nan)
ParamsGet(ps, key) == IF HasLabel(ps, key) THEN RowOf(ps, key).value ELSE NaN

\* volatility_models.py lines 167-188: the dict is a function on its keys
extract_model_parameters(ps) ==
    LET base == [k \in {"Omega", "Alpha", "Beta"} |->
                    IF k = "Omega" THEN ParamsGet(ps, S_Constant)
                    ELSE IF k = "Alpha" THEN ParamsGet(ps, S_alpha1)
                    ELSE ParamsGet(ps, S_beta1)]
    IN  IF HasLabel(ps, S_gamma1)
        THEN [k \in {"Omega", "Alpha", "Beta", "Gamma"} |->
                 IF k = "Gamma" THEN RowOf(ps, S_gamma1).value ELSE base[k]]
        ELSE base

ExtractOut(ps) ==
    [omega |-> Unresolved, alpha |-> Unresolved, beta |-> Unresolved,
     gamma |-> Unresolved, table |-> <<>>, shown |-> {}, printed |-> {},
     dict |-> extract_model_parameters(ps)]

\* the label sequences of at most n distinct labels
RECURSIVE LabelSeqs(_)
LabelSeqs(n) ==
    IF n = 0 THEN {<<>>}
    ELSE LET shorter == LabelSeqs(n - 1)
         IN  shorter \cup
             {Append(s, l) : s \in {t \in shorter : Len(t) = n - 1},
                             l \in LabelChoices}

DistinctLabels(s) == \A i, j \in 1..Len(s) : s[i] = s[j] => i = j

\* row k holds the value k and the standard error k/10; row nan_at, if any,
\* holds NaN
ParamsOf(labels, nan_at) ==
    [k \in 1..Len(labels) |->
        [label |-> labels[k],
         value |-> IF k = nan_at THEN NaN ELSE Num(k),
         se |-> IF k = nan_at THEN NaN ELSE Rat(k, 10)]]

ParamsChoices ==
    {ParamsOf(s, nan_at) :
        s \in {t \in LabelSeqs(MaxParams) : DistinctLabels(t)},
        nan_at \in 0..MaxParams}

----------------------------------------------------------------------------
(* app.py: one run of the script *)

\* Row labels (trading dates) as a range: the k-th date of the fetched frame
\* is k.  data.index, and the index of returns =
\* np.log(Close / Close.shift(1)).dropna() * 100 (line 206), which loses the
\* first date.
DateRange(first, len) == [first |-> first, len |-> len]
data_index(d) == DateRange(1, d.len)
returns_index(d) == DateRange(2, d.len - 1)

\* lines 399-406 / 566-573: go.Scatter(x=data.index,
\* y=np.sqrt(results.conditional_volatility) * np.sqrt(252)).  The
\* conditional volatility has one value per observation the model was fitted
\* on and carries the index of that series; y_index is the date each y value
\* belongs to.  Scatter pairs x and y by position.  y is the level of the
\* values before the factor np.sqrt(252), which the forecast trace
\* (y=forecast * np.sqrt(252), lines 409-416 / 576-583) is multiplied by too.
ConditionalVolTrace(name, d, results) ==
    [name |-> name,
     x |-> data_index(d),
     y_index |-> DateRange(returns_index(d).first, results.nobs),
     y |-> Sqrt(results.sigma)]

\* lines 311-318, 399-416 (455-462, 566-583): what a model tab renders of a
\* fit: the AIC metric (BIC and log-likelihood likewise), the conditional
\* volatility trace and the forecast trace
FitDisplay(results, forecast, d) ==
    [aic |-> results.aic,
     conditional_vol |-> ConditionalVolTrace("Conditional Vol", d, results),
     forecast |-> forecast]

\* the points a trace draws: position k pairs x[k] with y[k]
PointsOf(trace) ==
    LET n == IF trace.x.len < trace.y_index.len THEN trace.x.len
             ELSE trace.y_index.len
    IN  {[x |-> trace.x.first + k - 1, y_date |-> trace.y_index.first + k - 1] :
            k \in 1..n}

ForecastDayChoices ==
    {ForecastDaysMin, ForecastDaysMin + 1, DefaultForecastPeriods, ForecastDaysMax}

AppStart ==
    /\ pc = "sidebar"
    /\ models = GARCH11
    /\ forecast_days = DefaultForecastPeriods
    /\ provider = NoProvider
    /\ data = None
    /\ returns = NoSeries
    /\ messages = {}
    /\ garch_results = NoResults
    /\ garch_forecast = <<>>
    /\ egarch_results = NoResults
    /\ egarch_forecast = <<>>
    /\ better_model = "None"
    /\ aic_diff = 0
    /\ fit_calls = <<>>
    /\ fit_env = [garch |-> NoEnv, egarch |-> NoEnv]
    /\ traces = {}

LibIdle ==
    /\ prices = <<>>
    /\ lib_op = "none"
    /\ lib_returns = <<>>
    /\ validation = [valid |-> FALSE, message |-> "none"]
    /\ comparison = [none |-> TRUE, garch_aic |-> 0, egarch_aic |-> 0]

ExtIdle ==
    /\ params = <<>>
    /\ param_out = NoParamOut

CallIdle ==
    /\ call_args = NoArgs
    /\ call_env = <<>>
    /\ caller_returns = NoSeries
    /\ rolling = NoRolling
    /\ data_dict = <<>>
    /\ fetch_log = <<>>

\* st.session_state before the first run holds no key; the locals of the
\* sidebar block do not exist before the block runs
EmptySession == [key \in {} |-> 0]
NoSidebarRun == [pc |-> "start"]

SideIdle ==
    /\ interval = NoInterval
    /\ session_state = EmptySession
    /\ sidebar_run = NoSidebarRun

Init == AppStart /\ LibIdle /\ ExtIdle /\ CallIdle /\ SideIdle

\* the widgets of the sidebar (lines 141-157)
Sidebar ==
    /\ pc = "sidebar"
    /\ \E m \in ModelOptions, h \in ForecastDayChoices :
          /\ models' = m
          /\ forecast_days' = h
    /\ pc' = "fetch"
    /\ UNCHANGED <<provider, data, returns, messages, garch_results, garch_forecast,
                   egarch_results, egarch_forecast, better_model, aic_diff,
                   fit_calls, fit_env, traces>>
    /\ UNCHANGED libVars
    /\ UNCHANGED extVars
    /\ UNCHANGED sideVars
    /\ UNCHANGED callVars

\* lines 191-213: fetch, the length checks, the returns.  fetch_stock_data
\* catches every exception itself, and st.stop() is not an Exception, so the
\* except branch of the script is never taken.
FetchData ==
    /\ pc = "fetch"
    /\ \E prov \in ProviderOutcomes :
          LET d == fetch_stock_data(prov)
          IN  /\ provider' = prov
              /\ data' = d
              /\ IF d.none
                 THEN /\ messages' = {"error_no_data", "info_tip"}
                      /\ returns' = NoSeries
                      /\ pc' = "stopped"
                 ELSE IF d.len < AppMinRows
                 THEN /\ messages' = {"warning_few_days", "error_insufficient"}
                      /\ returns' = NoSeries
                      /\ pc' = "stopped"
                 ELSE /\ messages' =
                            (IF d.len < AppAdvisoryRows THEN {"warning_few_days"} ELSE {})
                                \cup {"success_loaded"}
                      /\ returns' = Series(d.len - 1, 1)
                      /\ pc' = "tab2"
    /\ UNCHANGED <<models, forecast_days, garch_results, garch_forecast,
                   egarch_results, egarch_forecast, better_model, aic_diff,
                   fit_calls, fit_env, traces>>
    /\ UNCHANGED libVars
    /\ UNCHANGED extVars
    /\ UNCHANGED sideVars
    /\ UNCHANGED callVars

\* tab2 (lines 297-437)
Tab2 ==
    /\ pc = "tab2"
    /\ IF ~StrIn(GARCH11, models) /\ ~StrIn(BOTH, models)
       THEN /\ messages' = messages \cup {"info_garch_not_selected"}
            /\ fit_calls' = <<>>
            /\ fit_env' = [garch |-> NoEnv, egarch |-> NoEnv]
            /\ UNCHANGED <<garch_results, garch_forecast, traces>>
       ELSE \E env \in EnvOutcomes :
              \E out \in {fit_garch(returns, DefaultP, DefaultQ, forecast_days, env)} :
                  /\ fit_calls' = <<Call("fit_garch", "tab2", DefaultP, DefaultQ,
                                         forecast_days, env, out)>>
                  /\ fit_env' = [garch |-> env, egarch |-> NoEnv]
                  /\ IF out.raised
                     THEN /\ messages' = messages \cup {"error_garch"}
                          /\ UNCHANGED <<garch_results, garch_forecast, traces>>
                     ELSE /\ garch_results' = out.results
                          /\ garch_forecast' = out.forecast
                          /\ traces' = traces \cup
                                {ConditionalVolTrace("GARCH(1,1) Conditional Vol",
                                                     data, out.results)}
                          /\ UNCHANGED messages
    /\ pc' = "tab3"
    /\ UNCHANGED <<models, forecast_days, provider, data, returns,
                   egarch_results, egarch_forecast, better_model, aic_diff>>
    /\ UNCHANGED libVars
    /\ UNCHANGED extVars
    /\ UNCHANGED sideVars
    /\ UNCHANGED callVars

\* tab3 (lines 443-604)
Tab3 ==
    /\ pc = "tab3"
    /\ IF ~StrIn(EGARCH11, models) /\ ~StrIn(BOTH, models)
       THEN /\ messages' = messages \cup {"info_egarch_not_selected"}
            /\ fit_calls' = <<>>
            /\ fit_env' = [garch |-> NoEnv, egarch |-> NoEnv]
            /\ UNCHANGED <<egarch_results, egarch_forecast, traces>>
       ELSE \E env \in EnvOutcomes :
              \E out \in {fit_egarch(returns, DefaultP, DefaultQ, forecast_days, env)} :
                  /\ fit_calls' = <<Call("fit_egarch", "tab3", DefaultP, DefaultQ,
                                         forecast_days, env, out)>>
                  /\ fit_env' = [garch |-> NoEnv, egarch |-> env]
                  /\ IF out.raised
                     THEN /\ messages' = messages \cup {"error_egarch"}
                          /\ UNCHANGED <<egarch_results, egarch_forecast, traces>>
                     ELSE /\ egarch_results' = out.results
                          /\ egarch_forecast' = out.forecast
                          /\ traces' = traces \cup
                                {ConditionalVolTrace("EGARCH(1,1) Conditional Vol",
                                                     data, out.results)}
                          /\ UNCHANGED messages
    /\ pc' = "tab4"
    /\ UNCHANGED <<models, forecast_days, provider, data, returns,
                   garch_results, garch_forecast, better_model, aic_diff>>
    /\ UNCHANGED libVars
    /\ UNCHANGED extVars
    /\ UNCHANGED sideVars
    /\ UNCHANGED callVars

\* lines 676-681: the recommendation
Recommend_HigherWins(garch_aic, egarch_aic) ==
    IF garch_aic > egarch_aic
    THEN [better_model |-> "GARCH(1,1)", aic_diff |-> egarch_aic - garch_aic]
    ELSE [better_model |-> "EGARCH(1,1)", aic_diff |-> garch_aic - egarch_aic]
Recommend(garch_aic, egarch_aic) ==
    IF garch_aic < egarch_aic
    THEN [better_model |-> "GARCH(1,1)", aic_diff |-> egarch_aic - garch_aic]
    ELSE [better_model |-> "EGARCH(1,1)", aic_diff |-> garch_aic - egarch_aic]

\* tab4 (lines 610-696).  The two calls pass forecast_days as the second
\* positional argument, which is p; forecast_periods keeps its default.
Tab4 ==
    /\ pc = "tab4"
    /\ \E genv \in EnvOutcomes, eenv \in EnvOutcomes :
        \E gout \in {fit_garch(returns, forecast_days, DefaultQ,
                                DefaultForecastPeriods, genv)},
           eout \in {fit_egarch(returns, forecast_days, DefaultQ,
                                 DefaultForecastPeriods, eenv)} :
          LET gcall == Call("fit_garch", "tab4", forecast_days, DefaultQ,
                            DefaultForecastPeriods, genv, gout)
              ecall == Call("fit_egarch", "tab4", forecast_days, DefaultQ,
                            DefaultForecastPeriods, eenv, eout)
          IN  /\ fit_env' = [garch |-> genv, egarch |-> eenv]
              /\ IF gout.raised
                 THEN /\ fit_calls' = <<gcall>>
                      /\ messages' = messages \cup {"error_comparing"}
                      /\ UNCHANGED <<garch_results, garch_forecast, egarch_results,
                                     egarch_forecast, better_model, aic_diff>>
                 ELSE IF eout.raised
                 THEN /\ fit_calls' = <<gcall, ecall>>
                      /\ garch_results' = gout.results
                      /\ garch_forecast' = gout.forecast
                      /\ messages' = messages \cup {"error_comparing"}
                      /\ UNCHANGED <<egarch_results, egarch_forecast,
                                     better_model, aic_diff>>
                 ELSE LET rec == Recommend(gout.results.aic, eout.results.aic)
                      IN  /\ fit_calls' = <<gcall, ecall>>
                          /\ garch_results' = gout.results
                          /\ garch_forecast' = gout.forecast
                          /\ egarch_results' = eout.results
                          /\ egarch_forecast' = eout.forecast
                          /\ better_model' = rec.better_model
                          /\ aic_diff' = rec.aic_diff
                          /\ messages' = messages \cup
                                {"table_comparison", "success_recommended"}
    /\ pc' = "done"
    /\ UNCHANGED <<models, forecast_days, provider, data, returns, traces>>
    /\ UNCHANGED libVars
    /\ UNCHANGED extVars
    /\ UNCHANGED sideVars
    /\ UNCHANGED callVars

\* a widget interaction runs the script again from the top
Rerun ==
    /\ pc \in {"done", "stopped"}
    /\ pc' = "sidebar"
    /\ models' = GARCH11
    /\ forecast_days' = DefaultForecastPeriods
    /\ provider' = NoProvider
    /\ data' = None
    /\ returns' = NoSeries
    /\ messages' = {}
    /\ garch_results' = NoResults
    /\ garch_forecast' = <<>>
    /\ egarch_results' = NoResults
    /\ egarch_forecast' = <<>>
    /\ better_model' = "None"
    /\ aic_diff' = 0
    /\ fit_calls' = <<>>
    /\ fit_env' = [garch |-> NoEnv, egarch |-> NoEnv]
    /\ traces' = {}
    /\ UNCHANGED libVars
    /\ UNCHANGED extVars
    /\ UNCHANGED sideVars
    /\ UNCHANGED callVars

Next == Sidebar \/ FetchData \/ Tab2 \/ Tab3 \/ Tab4 \/ Rerun

Spec == Init /\ [][Next]_vars

----------------------------------------------------------------------------
(* data_fetcher.py: calculate_returns, validate_data; app.py line 206 *)

calculate_returns(col, method) ==
    LET ps == ToSeries(col)
        rets == IF method = "log"
                THEN dropna(SeriesLog(SeriesDiv(ps, shift(ps))))
                ELSE dropna(SeriesSub1(SeriesDiv(ps, shift(ps))))
    IN  SeriesMul(rets, PercentFactor)

\* np.log(data['Close'] / data['Close'].shift(1)).dropna() * 100
app_returns(col) ==
    LET ps == ToSeries(col)
    IN  SeriesMul(dropna(SeriesLog(SeriesDiv(ps, shift(ps)))), PercentFactor)

\* data is None, or a frame whose Close column is col
validate_data(is_none, col, min_observations) ==
    IF is_none THEN [valid |-> FALSE, message |-> "Data is None"]
    ELSE IF Len(col) < min_observations
         THEN [valid |-> FALSE, message |-> "Insufficient data"]
    ELSE IF \E k \in 1..Len(col) : col[k].kind = "nan"
         THEN [valid |-> FALSE, message |-> "Data contains NaN values"]
    ELSE IF \E k \in 1..Len(col) : col[k].kind = "num" /\ col[k].n = 0
         THEN [valid |-> FALSE, message |-> "Data contains zero prices"]
    ELSE [valid |-> TRUE, message |-> "Data validation passed"]

----------------------------------------------------------------------------
(* volatility_models.py: compare_models *)

NoComparison == [none |-> TRUE, garch_aic |-> 0, egarch_aic |-> 0]

\* the dict returned, or None when either fit raised
compare_models_result(gout, eout) ==
    IF gout.raised \/ eout.raised
    THEN NoComparison
    ELSE [none |-> FALSE, garch_aic |-> gout.results.aic,
          egarch_aic |-> eout.results.aic]

----------------------------------------------------------------------------
(* SpecLib: the library functions called directly *)

PriceValues == {Num(v) : v \in (0 - MaxNegPrice)..MaxPrice} \cup {NaN}

RECURSIVE SeqsUpTo(_, _)
SeqsUpTo(S, n) ==
    IF n = 0 THEN {<<>>}
    ELSE LET shorter == SeqsUpTo(S, n - 1)
         IN  shorter \cup {Append(q, x) : q \in {r \in shorter : Len(r) = n - 1}, x \in S}

CloseColumns == SeqsUpTo(PriceValues, MaxLen)

MinObservationChoices == 0..MaxLen \cup {DefaultMinObservations}

LibCalculateReturns ==
    /\ lib_op = "none"
    /\ \E col \in CloseColumns, method \in {"log", "simple"} :
          /\ prices' = col
          /\ lib_returns' = calculate_returns(col, method)
          /\ lib_op' = IF method = "log" THEN "calculate_returns_log"
                       ELSE "calculate_returns_simple"
    /\ UNCHANGED <<validation, comparison, fit_calls, fit_env>>
    /\ UNCHANGED appVars
    /\ UNCHANGED extVars
    /\ UNCHANGED sideVars
    /\ UNCHANGED callVars

LibAppReturns ==
    /\ lib_op = "none"
    /\ \E col \in CloseColumns :
          /\ prices' = col
          /\ lib_returns' = app_returns(col)
    /\ lib_op' = "app_returns"
    /\ UNCHANGED <<validation, comparison, fit_calls, fit_env>>
    /\ UNCHANGED appVars
    /\ UNCHANGED extVars
    /\ UNCHANGED sideVars
    /\ UNCHANGED callVars

LibValidateData ==
    /\ lib_op = "none"
    /\ \E is_none \in BOOLEAN, col \in CloseColumns, m \in MinObservationChoices :
          /\ is_none => col = <<>>
          /\ prices' = col
          /\ validation' = validate_data(is_none, col, m)
          /\ lib_op' = IF is_none THEN "validate_data_none" ELSE "validate_data"
    /\ UNCHANGED <<lib_returns, comparison, fit_calls, fit_env>>
    /\ UNCHANGED appVars
    /\ UNCHANGED extVars
    /\ UNCHANGED sideVars
    /\ UNCHANGED callVars

LibCompareModels ==
    /\ lib_op = "none"
    /\ \E n \in 0..MaxLen, genv \in EnvOutcomes, eenv \in EnvOutcomes :
        \E gout \in {fit_garch(Series(n, 1), DefaultP, DefaultQ,
                               CompareForecastPeriods, genv)},
           eout \in {fit_egarch(Series(n, 1), DefaultP, DefaultQ,
                                CompareForecastPeriods, eenv)} :
          LET gcall == Call("fit_garch", "compare_models", DefaultP, DefaultQ,
                            CompareForecastPeriods, genv, gout)
              ecall == Call("fit_egarch", "compare_models", DefaultP, DefaultQ,
                            CompareForecastPeriods, eenv, eout)
          IN  /\ fit_env' = [garch |-> genv, egarch |-> eenv]
              /\ fit_calls' = IF gout.raised THEN <<gcall>> ELSE <<gcall, ecall>>
              /\ comparison' = compare_models_result(gout, eout)
              /\ call_args' = [fn |-> "compare_models", returns |-> Series(n, 1)]
              /\ caller_returns' =
                    IF gout.raised THEN Standardize(Series(n, 1)).returns
                    ELSE Standardize(Standardize(Series(n, 1)).returns).returns
    /\ lib_op' = "compare_models"
    /\ UNCHANGED <<prices, lib_returns, validation>>
    /\ UNCHANGED <<call_env, rolling, data_dict, fetch_log>>
    /\ UNCHANGED appVars
    /\ UNCHANGED extVars
    /\ UNCHANGED sideVars

\* fit_garch or fit_egarch called directly
LibFit ==
    /\ lib_op = "none"
    /\ \E fn \in {"fit_garch", "fit_egarch"}, n \in 0..MaxLen,
          forecast_periods \in 1..MaxHorizon, env \in EnvOutcomes :
        \E out \in {IF fn = "fit_garch"
                    THEN fit_garch(Series(n, 1), DefaultP, DefaultQ, forecast_periods, env)
                    ELSE fit_egarch(Series(n, 1), DefaultP, DefaultQ, forecast_periods,
                                    env)} :
          /\ fit_calls' = <<Call(fn, "direct", DefaultP, DefaultQ, forecast_periods,
                                 env, out)>>
          /\ fit_env' = IF fn = "fit_garch" THEN [garch |-> env, egarch |-> NoEnv]
                        ELSE [garch |-> NoEnv, egarch |-> env]
          /\ call_args' = [fn |-> fn, returns |-> Series(n, 1),
                           forecast_periods |-> forecast_periods]
          /\ caller_returns' = Standardize(Series(n, 1)).returns
          /\ lib_op' = fn
    /\ UNCHANGED <<call_env, rolling, data_dict, fetch_log>>
    /\ UNCHANGED libDataVars
    /\ UNCHANGED appVars
    /\ UNCHANGED extVars
    /\ UNCHANGED sideVars

\* what the estimator does in one iteration of rolling_forecast
RollEnvOutcomes == {EnvFitFails} \cup {EnvOk(s, 0) : s \in 1..MaxSigma}
ModelTypeChoices == {"GARCH", "EGARCH", "other"}

LibRollingForecast ==
    /\ lib_op = "none"
    /\ \E n \in 0..MaxRollLen, window \in 1..MaxWindow,
          forecast_horizon \in 0..MaxHorizon, model_type \in ModelTypeChoices :
        \E envs \in [RollingRange(Series(n, 1), window, forecast_horizon)
                        -> RollEnvOutcomes] :
          \E out \in {rolling_forecast(Series(n, 1), window, forecast_horizon,
                                       model_type, envs)} :
            /\ call_args' = [fn |-> "rolling_forecast", returns |-> Series(n, 1),
                             window |-> window, forecast_horizon |-> forecast_horizon,
                             model_type |-> model_type]
            /\ call_env' = envs
            /\ rolling' = [Date |-> out.Date, Forecast |-> out.Forecast,
                            fits |-> out.fits]
            /\ fit_calls' = out.calls
            /\ caller_returns' = out.returns
    /\ lib_op' = "rolling_forecast"
    /\ UNCHANGED <<fit_env, data_dict, fetch_log>>
    /\ UNCHANGED libDataVars
    /\ UNCHANGED appVars
    /\ UNCHANGED extVars
    /\ UNCHANGED sideVars

\* the symbols asked for and what the provider answers to each fetch
SymbolChoices == {"A", "B"}
FetchOutcomes ==
    {ProviderRaises, ProviderNone, ProviderFrame(FetchMinRows - 1, 0),
     ProviderFrame(FetchMinRows, 0), ProviderFrame(FetchMinRows + 1, 1)}

LibFetchMultiple ==
    /\ lib_op = "none"
    /\ \E symbols \in SeqsUpTo(SymbolChoices, MaxSymbols) :
        \E provs \in [1..Len(symbols) -> FetchOutcomes] :
          \E out \in {fetch_multiple_assets(symbols, provs)} :
            /\ call_args' = [fn |-> "fetch_multiple_assets", symbols |-> symbols]
            /\ call_env' = provs
            /\ data_dict' = out.data_dict
            /\ fetch_log' = out.fetched
    /\ lib_op' = "fetch_multiple_assets"
    /\ UNCHANGED <<fit_calls, fit_env, caller_returns, rolling>>
    /\ UNCHANGED libDataVars
    /\ UNCHANGED appVars
    /\ UNCHANGED extVars
    /\ UNCHANGED sideVars

\* the forecast arrays passed: every short array, and the constant arrays up
\* to a length at which the lower bound reaches 0
ConstantArray(v, n) == [k \in 1..n |-> v]
ForecastArrays ==
    SeqsUpTo(0..MaxForecast, MaxLen)
        \cup {ConstantArray(v, n) : v \in 0..MaxForecast, n \in 1..MaxForecastLen}
ConfidenceLevels == {90, 95, 99}

LibConfidenceInterval ==
    /\ lib_op = "none"
    /\ \E forecast_volatility \in ForecastArrays, confidence_level \in ConfidenceLevels :
          /\ call_args' = [fn |-> "calculate_forecast_confidence_interval",
                           forecast_volatility |-> forecast_volatility,
                           confidence_level |-> confidence_level]
          /\ interval' = calculate_forecast_confidence_interval(forecast_volatility,
                                                                confidence_level)
    /\ lib_op' = "calculate_forecast_confidence_interval"
    /\ UNCHANGED <<fit_calls, fit_env, call_env, caller_returns, rolling, data_dict,
                   fetch_log, session_state, sidebar_run>>
    /\ UNCHANGED libDataVars
    /\ UNCHANGED appVars
    /\ UNCHANGED extVars

\* the call has returned; nothing of it is kept
LibReturn ==
    /\ lib_op # "none"
    /\ prices' = <<>>
    /\ lib_op' = "none"
    /\ lib_returns' = <<>>
    /\ validation' = [valid |-> FALSE, message |-> "none"]
    /\ comparison' = NoComparison
    /\ fit_calls' = <<>>
    /\ fit_env' = [garch |-> NoEnv, egarch |-> NoEnv]
    /\ params' = <<>>
    /\ param_out' = NoParamOut
    /\ call_args' = NoArgs
    /\ call_env' = <<>>
    /\ caller_returns' = NoSeries
    /\ rolling' = NoRolling
    /\ data_dict' = <<>>
    /\ fetch_log' = <<>>
    /\ interval' = NoInterval
    /\ UNCHANGED <<session_state, sidebar_run>>
    /\ UNCHANGED appVars

NextLib ==
    LibCalculateReturns \/ LibAppReturns \/ LibValidateData \/ LibCompareModels
        \/ LibFit \/ LibRollingForecast \/ LibFetchMultiple
        \/ LibConfidenceInterval
        \/ LibReturn

SpecLib == Init /\ [][NextLib]_vars

----------------------------------------------------------------------------
(* SpecParams: the parameter code on any coefficient labels *)

ParamsTab2 ==
    /\ lib_op = "none"
    /\ \E ps \in ParamsChoices :
          /\ params' = ps
          /\ param_out' = GarchParamTable(ps)
    /\ lib_op' = "params_tab2"
    /\ UNCHANGED <<fit_calls, fit_env>>
    /\ UNCHANGED libDataVars
    /\ UNCHANGED callVars
    /\ UNCHANGED sideVars
    /\ UNCHANGED appVars

ParamsTab3 ==
    /\ lib_op = "none"
    /\ \E ps \in ParamsChoices :
          /\ params' = ps
          /\ param_out' = EgarchParamTable(ps)
    /\ lib_op' = "params_tab3"
    /\ UNCHANGED <<fit_calls, fit_env>>
    /\ UNCHANGED libDataVars
    /\ UNCHANGED callVars
    /\ UNCHANGED sideVars
    /\ UNCHANGED appVars

ParamsExtract ==
    /\ lib_op = "none"
    /\ \E ps \in ParamsChoices :
          /\ params' = ps
          /\ param_out' = ExtractOut(ps)
    /\ lib_op' = "extract_model_parameters"
    /\ UNCHANGED <<fit_calls, fit_env>>
    /\ UNCHANGED libDataVars
    /\ UNCHANGED callVars
    /\ UNCHANGED sideVars
    /\ UNCHANGED appVars

NextParams == ParamsTab2 \/ ParamsTab3 \/ ParamsExtract \/ LibReturn

SpecParams == Init /\ [][NextParams]_vars

----------------------------------------------------------------------------
(* Sidebar asset selection, app.py:69-135.  st.session_state lives across
   the reruns of the script; the two selectboxes return what the user has
   picked, which for a selectbox is always one of the options it was given. *)

AssetClasses == <<"Equity Indices", "Nifty Stocks", "International Indices", "Commodities">>

available_assets(asset_type) ==
    IF asset_type = "Equity Indices"
    THEN <<"NIFTY 50 Index", "NIFTY Bank Index", "NIFTY IT Index">>
    ELSE IF asset_type = "Nifty Stocks"
    THEN <<"TCS", "Infosys", "HDFC Bank", "ICICI Bank", "Reliance",
           "Axis Bank", "Maruti", "ITC", "Bajaj Finance", "Wipro",
           "Kotak Bank", "State Bank of India", "Larsen & Toubro">>
    ELSE IF asset_type = "International Indices"
    THEN <<"S&P 500", "NASDAQ", "Dow Jones", "Russell 2000">>
    ELSE <<"Gold", "Silver", "Crude Oil", "Natural Gas", "Copper">>

symbols(asset_type) ==
    IF asset_type = "Equity Indices"
    THEN <<"^NSEI", "^NSEBANK", "^CNXIT">>
    ELSE IF asset_type = "Nifty Stocks"
    THEN <<"TCS.NS", "INFY.NS", "HDFCBANK.NS", "ICICIBANK.NS", "RELIANCE.NS",
           "AXISBANK.NS", "MARUTI.NS", "ITC.NS", "BAJAJFINSV.NS", "WIPRO.NS",
           "KOTAKBANK.NS", "SBIN.NS", "LT.NS">>
    ELSE IF asset_type = "International Indices"
    THEN <<"^GSPC", "^IXIC", "^DJI", "^RUT">>
    ELSE <<"GC=F", "SI=F", "CL=F", "NG=F", "HG=F">>

\* Python positions start at 0
Elements(list) == {list[i] : i \in 1..Len(list)}
ListIndex(list, x) == (CHOOSE i \in 1..Len(list) : list[i] = x) - 1
ListAt(list, i) == list[i + 1]
ValidIndex(list, i) == i \in 0..(Len(list) - 1)

\* if key not in st.session_state: st.session_state.key = value
SetDefault(ss, key, value) == IF key \in DOMAIN ss THEN ss ELSE ss @@ (key :> value)

InitSession(ss) ==
    SetDefault(SetDefault(ss, "last_asset_class", "Equity Indices"),
               "selected_asset_index", 0)

TrackClassChange_KeepsIndex(ss, asset_type) ==
    IF asset_type # ss.last_asset_class
    THEN [ss EXCEPT !.last_asset_class = asset_type]
    ELSE ss

TrackClassChange(ss, asset_type) ==
    IF asset_type # ss.last_asset_class
    THEN [ss EXCEPT !.last_asset_class = asset_type, !.selected_asset_index = 0]
    ELSE ss

EnsureValidIndex(ss, assets) ==
    IF ss.selected_asset_index >= Len(assets)
    THEN [ss EXCEPT !.selected_asset_index = 0]
    ELSE ss

\* One run of the sidebar block up to the symbol: the locals it leaves and
\* the session state it leaves, for the two selections of the user.
SidebarBlock(ss, asset_type, selected_asset) ==
    LET ss0 == InitSession(ss)
        class_index == ListIndex(AssetClasses, ss0.last_asset_class)
        ss1 == TrackClassChange(ss0, asset_type)
        assets == available_assets(asset_type)
        ss2 == EnsureValidIndex(ss1, assets)
        asset_index == ListIndex(assets, selected_asset)
    IN  [locals |-> [pc |-> "done",
                     asset_type |-> asset_type,
                     class_index |-> class_index,
                     class_changed |-> asset_type # ss0.last_asset_class,
                     available_assets |-> assets,
                     symbols |-> symbols(asset_type),
                     index |-> ss2.selected_asset_index,
                     selected_asset |-> selected_asset,
                     asset_index |-> asset_index,
                     symbol |-> ListAt(symbols(asset_type), asset_index)],
         session |-> [ss2 EXCEPT !.selected_asset_index = asset_index]]

SidebarAssets ==
    /\ sidebar_run.pc = "start"
    /\ \E asset_type \in Elements(AssetClasses) :
         \E selected_asset \in Elements(available_assets(asset_type)) :
           \E out \in {SidebarBlock(session_state, asset_type, selected_asset)} :
             /\ sidebar_run' = out.locals
             /\ session_state' = out.session
    /\ UNCHANGED <<interval, fit_calls, fit_env>>
    /\ UNCHANGED appVars
    /\ UNCHANGED libVars
    /\ UNCHANGED extVars
    /\ UNCHANGED callVars

\* A widget interaction starts the script again: the locals are gone, the
\* session state stays.
SessionRerun ==
    /\ sidebar_run.pc = "done"
    /\ sidebar_run' = NoSidebarRun
    /\ UNCHANGED <<interval, session_state, fit_calls, fit_env>>
    /\ UNCHANGED appVars
    /\ UNCHANGED libVars
    /\ UNCHANGED extVars
    /\ UNCHANGED callVars

NextSession == SidebarAssets \/ SessionRerun

SpecSession == Init /\ [][NextSession]_vars

----------------------------------------------------------------------------
(* Claims *)

CallIndices == 1..Len(fit_calls)
Returned(c) == ~c.raised
AppCall(c) == c.caller \in {"tab2", "tab3", "tab4"}

\* C1: every fit the application triggers returns a forecast array whose
\* length is the horizon the user selected (forecast_days).
C1_ForecastLengthIsHorizon ==
    \A i \in CallIndices :
        (AppCall(fit_calls[i]) /\ Returned(fit_calls[i]))
            => Len(fit_calls[i].forecast) = forecast_days

\* C2: every fit the application performs uses the lag orders p = 1, q = 1,
\* whatever the sidebar controls are set to.
C2_OrdersAreOneOne ==
    \A i \in CallIndices :
        AppCall(fit_calls[i]) => (fit_calls[i].p = 1 /\ fit_calls[i].q = 1)

\* C3: the forecast returned by fit_garch / fit_egarch is a standard deviation
\* in the unit of the input returns: its square times 100^2 is the variance
\* the estimator forecast for the x100 series, and every step equals the
\* series' volatility level in input units.
C3_ForecastInInputUnits ==
    \A i \in CallIndices :
        Returned(fit_calls[i]) =>
            \A k \in 1..Len(fit_calls[i].forecast) :
                /\ fit_calls[i].forecast[k] = fit_calls[i].env.sigma
                /\ fit_calls[i].forecast[k] * fit_calls[i].forecast[k]
                       * ReturnsScale * ReturnsScale
                     = fit_calls[i].results.sigma * fit_calls[i].results.sigma

\* a fit returned a forecast for a series whose volatility level is not 1
C3_Witness ==
    \E i \in CallIndices :
        /\ Returned(fit_calls[i])
        /\ fit_calls[i].env.sigma = 2
        /\ Len(fit_calls[i].forecast) >= 1
        /\ fit_calls[i].results.scale = ReturnsScale

\* C4: a cleaned data set of 50..99 observations is not rejected: the run goes
\* on to the model tabs with only the advisory warning; 49 observations are
\* rejected as insufficient.
C4_FiftyAccepted ==
    (provider.kind = "frame" /\ pc \notin {"sidebar", "fetch"}) =>
        /\ (CleanedLen(provider) >= AppMinRows /\ CleanedLen(provider) < AppAdvisoryRows)
              => (pc # "stopped" /\ "warning_few_days" \in messages)
        /\ (CleanedLen(provider) > 0 /\ CleanedLen(provider) < AppMinRows)
              => pc = "stopped"

HasNonPositivePrice ==
    \E k \in 1..Len(prices) : prices[k].kind = "num" /\ prices[k].n <= 0
HasNaNPrice == \E k \in 1..Len(prices) : prices[k].kind = "nan"
AllPositivePrices ==
    \A k \in 1..Len(prices) : prices[k].kind = "num" /\ prices[k].n > 0

\* C5: a price sequence holding a price <= 0 is reported invalid by
\* validate_data, and calculate_returns does not drop the affected
\* observations and return a shorter series.
C5_NonPositiveRejected ==
    (HasNonPositivePrice /\ ~HasNaNPrice) =>
        /\ lib_op = "validate_data" => ~validation.valid
        /\ lib_op \in {"calculate_returns_log", "calculate_returns_simple"}
              => Len(lib_returns) = Len(prices) - 1

\* C6: for N positive prices, calculate_returns("log") and the script's own
\* computation give N-1 returns in the original order, the t-th being
\* 100 * ln(P[t]/P[t-1]) of the two adjacent prices.
C6_LogReturns ==
    (lib_op \in {"calculate_returns_log", "app_returns"}
        /\ Len(prices) >= 1 /\ AllPositivePrices) =>
        /\ Len(lib_returns) = Len(prices) - 1
        /\ \A t \in 1..Len(lib_returns) :
              /\ lib_returns[t].idx = t + 1
              /\ lib_returns[t].val =
                    Rat(PercentFactor
                            * (LnMicro(prices[t + 1].n) - LnMicro(prices[t].n)),
                        LnUnit)

\* three positive prices going up and then down
C6_Witness ==
    /\ lib_op = "calculate_returns_log"
    /\ Len(prices) = 3
    /\ AllPositivePrices
    /\ Len(lib_returns) = 2
    /\ lib_returns[1].val.n > 0
    /\ lib_returns[2].val.n < 0

BothFitted ==
    /\ pc = "done"
    /\ Len(fit_calls) = 2
    /\ Returned(fit_calls[1])
    /\ Returned(fit_calls[2])

Abs(x) == IF x < 0 THEN 0 - x ELSE x

\* C7: when both models have been fitted, the recommended model has the lower
\* AIC (no higher than the other's) and the reported gap is the absolute
\* difference of the two AIC values.
C7_LowerAicWins ==
    BothFitted =>
        /\ better_model \in {"GARCH(1,1)", "EGARCH(1,1)"}
        /\ better_model = "GARCH(1,1)" => garch_results.aic < egarch_results.aic
        /\ better_model = "EGARCH(1,1)" => egarch_results.aic <= garch_results.aic
        /\ aic_diff = Abs(garch_results.aic - egarch_results.aic)
        /\ aic_diff >= 0

\* both fitted, GARCH has the strictly lower AIC
C7_Witness ==
    /\ BothFitted
    /\ garch_results.aic < egarch_results.aic
    /\ better_model = "GARCH(1,1)"
    /\ aic_diff > 0

Fails(env) == ~(env.fit_ok /\ env.forecast_ok)
ExactlyOneFails ==
    /\ fit_env.garch # NoEnv
    /\ fit_env.egarch # NoEnv
    /\ Fails(fit_env.garch) # Fails(fit_env.egarch)

\* C8: if exactly one of the two fits fails during a comparison, the
\* statistics of the successful model are still returned (compare_models) or
\* shown (Model Comparison tab).
C8_OneFailureKeepsOther ==
    ExactlyOneFails =>
        /\ lib_op = "compare_models" => ~comparison.none
        /\ pc = "done" => "table_comparison" \in messages

\* C9: a fit error reaches the caller only after exactly two attempts (the
\* first and one retry with relaxed options).
C9_RetryOnce ==
    \A i \in CallIndices :
        (fit_calls[i].raised /\ ~fit_calls[i].env.fit_ok)
            => fit_calls[i].attempts = 2

\* C10: if the fit succeeds and the forecast computation raises, the call
\* does not raise and returns a forecast of the requested length.
C10_ForecastFallback ==
    \A i \in CallIndices :
        (fit_calls[i].env.fit_ok /\ ~fit_calls[i].env.forecast_ok)
            => /\ ~fit_calls[i].raised
               /\ Len(fit_calls[i].forecast) = fit_calls[i].forecast_periods

ConstantPrices ==
    /\ Len(prices) >= 2
    /\ AllPositivePrices
    /\ \A k \in 1..Len(prices) : prices[k] = prices[1]

\* C11: a constant-price series (every return zero) is not reported valid by
\* validate_data.
C11_ConstantRejected ==
    (lib_op = "validate_data" /\ ConstantPrices) => ~validation.valid

\* C12: no data, too few observations and an exception while fetching are
\* three different failure values, and the script shows a different message
\* for each.
C12_DistinctFailures ==
    pc = "stopped" =>
        /\ provider.kind = "raises" =>
              ("error_fetching" \in messages /\ "error_no_data" \notin messages)
        /\ (provider.kind = "none" \/ (provider.kind = "frame" /\ provider.rows = 0))
              => "error_no_data" \in messages
        /\ (provider.kind = "frame" /\ provider.rows > 0)
              => ("error_insufficient" \in messages /\ "error_no_data" \notin messages)

\* the parameter tables of the script
TableOps == {"params_tab2", "params_tab3"}
ParamOps == TableOps \cup {"extract_model_parameters"}

\* the omega the operation reported
OmegaOut ==
    IF lib_op = "extract_model_parameters" THEN param_out.dict["Omega"]
    ELSE param_out.omega.value

\* the labels that name the variance constant
VarianceConstantLabels == {S_omega, S_Constant, S_const}

\* C13: when a coefficient is labelled "omega", "Constant" or "const", the
\* omega role is the value of that coefficient, in the script's tables and in
\* extract_model_parameters.
C13_OmegaIsVarianceConstant ==
    lib_op \in ParamOps =>
        \A l \in VarianceConstantLabels :
            (HasLabel(params, l)
             /\ \A other \in VarianceConstantLabels \ {l} : ~HasLabel(params, other))
                => OmegaOut = RowOf(params, l).value

\* a label matches a known name of the constant exactly or as a
\* case-insensitive substring
OmegaNameMatch(ps) ==
    \E i \in 1..Len(ps), k \in 1..Len(OmegaKeys) :
        StrIn(Lower(OmegaKeys[k]), Lower(ps[i].label))

\* C14: the positional fallback is used only for omega and only when neither
\* the exact nor the case-insensitive substring match found a label; alpha,
\* beta and gamma are never taken by position.
C14_ResolutionOrder ==
    lib_op \in TableOps =>
        /\ param_out.omega.how = "position" => ~OmegaNameMatch(params)
        /\ \A r \in {"alpha", "beta", "gamma"} : param_out[r].how # "position"

\* the roles a table shows, the row of each, and the names a label of the
\* role would contain
RolesOf(op) ==
    IF op = "params_tab3" THEN {"omega", "alpha", "beta", "gamma"}
    ELSE {"omega", "alpha", "beta"}
RowIndex(r) ==
    IF r = "omega" THEN 1 ELSE IF r = "alpha" THEN 2 ELSE IF r = "beta" THEN 3 ELSE 4
RoleNeedles(r) ==
    IF r = "omega" THEN {Lower(OmegaKeys[k]) : k \in 1..Len(OmegaKeys)} \cup {S_omega}
    ELSE IF r = "alpha" THEN AlphaNeedles
    ELSE IF r = "beta" THEN BetaNeedles
    ELSE GammaNeedles
MatchingRows(r) ==
    {i \in 1..Len(params) : \E g \in RoleNeedles(r) : StrIn(g, Lower(params[i].label))}
NoLabelFor(r) == MatchingRows(r) = {}

\* every role of the table has its row, and None and NaN are shown as "N/A"
TableComplete ==
    /\ Len(param_out.table) = Cardinality(RolesOf(lib_op))
    /\ \A r \in RolesOf(lib_op) :
          param_out[r].value.kind \in {"none", "nan"}
              => param_out.table[RowIndex(r)].coefficient = NA

\* C15 as stated: a role with no matching label is None and is shown as
\* "N/A", as is NaN, and the table with the other roles is still displayed.
C15_NoMatchIsNA ==
    lib_op \in TableOps =>
        /\ TableComplete
        /\ \A r \in RolesOf(lib_op) :
              NoLabelFor(r) =>
                  /\ param_out[r].value = PyNone
                  /\ param_out.table[RowIndex(r)].coefficient = NA

\* C15 amended: alpha, beta and gamma with no matching label are None and
\* are shown as "N/A"; omega with no matching label is the first coefficient,
\* and None only when there is no coefficient at all; NaN is shown as "N/A";
\* the table is displayed and a role with a matching label shows the value
\* of the first such label.
C15_NoMatchIsNAExceptOmega ==
    lib_op \in TableOps =>
        /\ TableComplete
        /\ \A r \in RolesOf(lib_op) \ {"omega"} :
              IF NoLabelFor(r)
              THEN /\ param_out[r].value = PyNone
                   /\ param_out.table[RowIndex(r)].coefficient = NA
              ELSE LET v == params[MinOf(MatchingRows(r))].value
                   IN  /\ param_out[r].value = v
                       /\ v.kind = "num" =>
                             param_out.table[RowIndex(r)].coefficient =
                                 [text |-> "num", micro |-> v.n * SixDecimals]
        /\ NoLabelFor("omega") =>
              IF Len(params) = 0
              THEN /\ param_out.omega.value = PyNone
                   /\ param_out.table[1].coefficient = NA
              ELSE param_out.omega.value = params[1].value

\* tab3 on labels with no alpha and no name of the constant, beta present
C15_Witness ==
    /\ lib_op = "params_tab3"
    /\ NoLabelFor("alpha")
    /\ NoLabelFor("omega")
    /\ ~NoLabelFor("beta")
    /\ param_out.table[2].coefficient = NA
    /\ param_out.table[3].coefficient.text = "num"
    /\ param_out.omega.how = "position"

\* rows whose label names the asymmetry term
IsGammaRow(row) == \E g \in GammaNeedles : StrIn(g, Lower(row.label))
NotGammaRow(row) == ~IsGammaRow(row)
GammaPresent == \E i \in 1..Len(params) : IsGammaRow(params[i])
GammaReported ==
    IF lib_op = "extract_model_parameters" THEN "Gamma" \in DOMAIN param_out.dict
    ELSE param_out.gamma.value.kind # "none"

OutOf(op, ps) ==
    IF op = "params_tab2" THEN GarchParamTable(ps)
    ELSE IF op = "params_tab3" THEN EgarchParamTable(ps)
    ELSE ExtractOut(ps)
Diagnostics(out) == out.printed \cup out.shown

\* C16: when a label names the asymmetry term but no gamma is reported, what
\* is printed or shown differs from what is printed or shown for the same
\* coefficients without that label.
C16_GammaUnresolvedDiagnosed ==
    (lib_op \in {"params_tab3", "extract_model_parameters"}
     /\ GammaPresent /\ ~GammaReported)
        => Diagnostics(param_out) #
               Diagnostics(OutOf(lib_op, SelectSeq(params, NotGammaRow)))

NamesOf(results) == {results.names[k].name : k \in 1..Len(results.names)}

\* C17: a fit by fit_garch estimates exactly three parameters, omega, alpha
\* and beta; a fit by fit_egarch estimates exactly four, gamma among them.
C17_ParameterCounts ==
    \A i \in CallIndices :
        Returned(fit_calls[i]) =>
            IF fit_calls[i].fn = "fit_garch"
            THEN /\ Len(fit_calls[i].results.names) = 3
                 /\ NamesOf(fit_calls[i].results) = {"omega", "alpha", "beta"}
            ELSE /\ Len(fit_calls[i].results.names) = 4
                 /\ "gamma" \in NamesOf(fit_calls[i].results)

\* C18: a conditional-volatility trace has one value per return observation,
\* every value is drawn, and each is drawn at the date of its observation.
C18_VolPathOnOwnDates ==
    \A t \in traces :
        /\ t.y_index.len = returns.n
        /\ Cardinality(PointsOf(t)) = t.y_index.len
        /\ \A pt \in PointsOf(t) : pt.x = pt.y_date

\* the functions of VolatilityModels that take a returns series
SeriesOps == {"fit_garch", "fit_egarch", "compare_models", "rolling_forecast"}

ProducedData ==
    {k \in 1..Len(call_args.symbols) : ~fetch_stock_data(call_env[k]).none}

\* C20: fetch_multiple_assets calls fetch_stock_data for every symbol, in
\* order, and the keys of the dict it returns are exactly the symbols for
\* which a fetch gave data.
C20_KeysAreFetchedSymbols ==
    lib_op = "fetch_multiple_assets" =>
        /\ fetch_log = call_args.symbols
        /\ DOMAIN data_dict = {call_args.symbols[k] : k \in ProducedData}

\* the first symbol fails, the second is fetched all the same and is the key
C20_Witness ==
    /\ lib_op = "fetch_multiple_assets"
    /\ call_args.symbols = <<"A", "B">>
    /\ call_env[1] = ProviderRaises
    /\ DOMAIN data_dict = {"B"}
    /\ fetch_log = <<"A", "B">>

\* the fits the model tabs hold
ShownFits == {<<garch_results, garch_forecast>>, <<egarch_results, egarch_forecast>>}

\* C21: a fit result carries its convergence status, and a fit that did not
\* converge is not rendered like the same fit converged.
C21_NonConvergenceShown ==
    \A f \in ShownFits :
        (f[1] # NoResults /\ ~f[1].converged) =>
            FitDisplay(f[1], f[2], data) #
                FitDisplay([f[1] EXCEPT !.converged = TRUE], f[2], data)

\* omega > 0, alpha >= 0, beta >= 0, alpha + beta < 1 (coefficients in tenths)
ConstraintsHold(c) ==
    /\ c.omega > 0
    /\ c.alpha >= 0
    /\ c.beta >= 0
    /\ c.alpha + c.beta < 10

\* C22: the coefficients of every fit fit_garch returns satisfy the GARCH
\* constraints, or the fit is flagged as not converged.
C22_ConstraintsOrFlag ==
    \A i \in CallIndices :
        (fit_calls[i].fn = "fit_garch" /\ Returned(fit_calls[i])) =>
            \/ ConstraintsHold(fit_calls[i].results.coefs)
            \/ ~fit_calls[i].results.converged

\* a returned GARCH(1,1) fit with alpha + beta < 1
StationaryGarch11(c) ==
    /\ c.fn = "fit_garch"
    /\ Returned(c)
    /\ c.p = 1 /\ c.q = 1
    /\ ConstraintsHold(c.results.coefs)

\* the forecast variance of step k: the square of the forecast volatility
ForecastVariance(c, k) == c.forecast[k] * c.forecast[k]

\* C23: with omega, alpha, beta of the fitted model (in tenths), the forecast
\* variance of every step after the first is omega + (alpha + beta) times
\* that of the step before, and the forecast of a series at its stationary
\* level is sqrt(omega / (1 - alpha - beta)).
C23_ForecastRecursion ==
    \A i \in CallIndices :
        StationaryGarch11(fit_calls[i]) =>
            LET c == fit_calls[i]
                coefs == c.results.coefs
            IN  /\ \A k \in 2..Len(c.forecast) :
                      10 * ForecastVariance(c, k) =
                          coefs.omega + (coefs.alpha + coefs.beta) * ForecastVariance(c, k - 1)
                /\ Len(c.forecast) >= 1 =>
                      (10 - coefs.alpha - coefs.beta) * ForecastVariance(c, Len(c.forecast))
                          = coefs.omega

\* C24: the GARCH tab fits when the selection is "GARCH(1,1)" or "Both"; with
\* "EGARCH(1,1)" it shows the notice and fits nothing, and the EGARCH tab
\* fits nothing with "GARCH(1,1)".
C24_TabsFollowSelection ==
    /\ pc = "tab3" =>
          /\ models \in {GARCH11, BOTH} => Len(fit_calls) = 1
          /\ models = EGARCH11 =>
                (fit_calls = <<>> /\ "info_garch_not_selected" \in messages)
    /\ pc = "tab4" =>
          /\ models \in {EGARCH11, BOTH} => Len(fit_calls) = 1
          /\ models = GARCH11 =>
                (fit_calls = <<>> /\ "info_egarch_not_selected" \in messages)

\* the width of step k of an interval
Width(iv, k) == iv.upper[k] - iv.lower[k]

\* C25: for the same forecast, the interval of a higher confidence level is
\* at every step at least as wide as that of a lower level.
C25_HigherLevelNotNarrower ==
    lib_op = "calculate_forecast_confidence_interval" =>
        \A level \in ConfidenceLevels :
            level < call_args.confidence_level =>
                \A k \in 1..Len(call_args.forecast_volatility) :
                    Width(interval, k) >=
                        Width(calculate_forecast_confidence_interval(
                                  call_args.forecast_volatility, level), k)

IsConstantArray(a) == \A k \in 1..Len(a) : a[k] = a[1]

\* C26: for non-negative forecasts the two bounds have the length of the
\* input, 0 <= lower[k] <= forecast[k] <= upper[k] at every step, and for a
\* constant forecast the width never decreases from one step to the next.
C26_IntervalShape ==
    lib_op = "calculate_forecast_confidence_interval" =>
        LET f == call_args.forecast_volatility
        IN  /\ Len(interval.lower) = Len(f)
            /\ Len(interval.upper) = Len(f)
            /\ \A k \in 1..Len(f) :
                  /\ 0 <= interval.lower[k]
                  /\ interval.lower[k] <= f[k] * 1000000
                  /\ f[k] * 1000000 <= interval.upper[k]
            /\ IsConstantArray(f) =>
                  \A k \in 2..Len(f) : Width(interval, k) >= Width(interval, k - 1)

\* a constant positive forecast long enough for the lower bound to be cut
\* off at 0 while the interval keeps widening
C26_Witness ==
    /\ lib_op = "calculate_forecast_confidence_interval"
    /\ Len(call_args.forecast_volatility) = MaxForecastLen
    /\ call_args.forecast_volatility[1] > 0
    /\ interval.lower[1] > 0
    /\ interval.lower[MaxForecastLen] = 0
    /\ Width(interval, MaxForecastLen) > Width(interval, MaxForecastLen - 1)

\* the iterations of rolling_forecast that gave a row, in order
IsRow(fit) == fit.row
RowFits == SelectSeq(rolling.fits, IsRow)
MaxOf2(a, b) == IF a > b THEN a ELSE b

\* C27: Date and Forecast have the same number of rows, at most
\* max(0, len(returns) - window - forecast_horizon); every window of the
\* range is fitted whether or not an earlier one raised, and only those that
\* did not raise give a row; every fit gets exactly `window` consecutive
\* observations, all of them before the date of its row.
C27_RollingTable ==
    lib_op = "rolling_forecast" =>
        LET n == call_args.returns.n
            window == call_args.window
            most == MaxOf2(0, n - window - call_args.forecast_horizon)
        IN  /\ Len(rolling.Date) = Len(rolling.Forecast)
            /\ Len(rolling.Date) <= most
            /\ Len(rolling.fits) = most
            /\ Len(fit_calls) = most
            /\ Len(rolling.Date) = Len(RowFits)
            /\ \A k \in 1..Len(rolling.fits) :
                  /\ fit_calls[k].raised => ~rolling.fits[k].row
                  /\ rolling.fits[k].slice.stop - rolling.fits[k].slice.start = window
                  /\ rolling.fits[k].slice.start >= 0
                  /\ rolling.fits[k].slice.stop <= n
                  /\ fit_calls[k].raised \/ fit_calls[k].results.nobs = window
            /\ \A r \in 1..Len(rolling.Date) :
                  \* the last observation of the window has the label slice.stop
                  RowFits[r].slice.stop < rolling.Date[r]

\* the first window raises, the second is fitted and gives the only row
C27_Witness ==
    /\ lib_op = "rolling_forecast"
    /\ Len(rolling.fits) = 2
    /\ fit_calls[1].raised
    /\ ~rolling.fits[1].row
    /\ rolling.fits[2].row
    /\ Len(rolling.Date) = 1

\* C28: the row made from the window [i - window, i) at horizon h carries the
\* date of position i - 1 + h, the observation h steps after the last one of
\* the window (the label of position j is j + 1).
C28_RowDateIsForecastDate ==
    lib_op = "rolling_forecast" =>
        \A r \in 1..Len(rolling.Date) :
            rolling.Date[r] =
                (RowFits[r].slice.stop - 1 + call_args.forecast_horizon) + 1

\* C29: after every run of the sidebar, whatever the user picked in this and
\* in the earlier runs: the index handed to the asset selectbox is a position
\* of the current class's asset list, and is 0 when the class differs from
\* the class of the run before; last_asset_class is the class of this run;
\* the stored index is the position of the selected asset; the symbol is the
\* entry of the symbol list at that position; and the asset list and the
\* symbol list of every class have the same length.
SidebarDone == sidebar_run.pc = "done"

C29_SessionSelection ==
    /\ \A c \in Elements(AssetClasses) : Len(available_assets(c)) = Len(symbols(c))
    /\ SidebarDone =>
          /\ ValidIndex(AssetClasses, sidebar_run.class_index)
          /\ ValidIndex(available_assets(sidebar_run.asset_type), sidebar_run.index)
          /\ sidebar_run.class_changed => sidebar_run.index = 0
          /\ session_state.last_asset_class = sidebar_run.asset_type
          /\ ValidIndex(available_assets(sidebar_run.asset_type),
                        session_state.selected_asset_index)
          /\ ListAt(available_assets(sidebar_run.asset_type),
                    session_state.selected_asset_index) = sidebar_run.selected_asset
          /\ sidebar_run.symbol =
                ListAt(symbols(sidebar_run.asset_type),
                       ListIndex(available_assets(sidebar_run.asset_type),
                                 sidebar_run.selected_asset))
    /\ ~SidebarDone /\ session_state # EmptySession =>
          ValidIndex(available_assets(session_state.last_asset_class),
                     session_state.selected_asset_index)

\* a run in which the user came back from "Nifty Stocks" to the shorter list
\* of "Equity Indices" and picked its third asset
C29_Witness ==
    /\ SidebarDone
    /\ sidebar_run.class_changed
    /\ sidebar_run.asset_type = "Equity Indices"
    /\ sidebar_run.class_index = 1
    /\ sidebar_run.index = 0
    /\ sidebar_run.symbol = "^CNXIT"
    /\ session_state.selected_asset_index = 2

\* C30: the in-sample conditional-volatility trace and the forecast trace of
\* a tab are on one scale: before the common factor sqrt(252), the in-sample
\* level is the fitted conditional standard deviation with the x100 of the
\* fit undone, and so is every forecast value.
\* the fit a trace was drawn from is the one the tab has just stored
DrawnInTab2(t) == pc = "tab3" /\ t.name = "GARCH(1,1) Conditional Vol"
DrawnInTab3(t) == pc = "tab4" /\ t.name = "EGARCH(1,1) Conditional Vol"

OnOneScale(t, results, forecast) ==
    /\ t.y * ReturnsScale = results.sigma
    /\ \A k \in 1..Len(forecast) : forecast[k] * ReturnsScale = results.sigma

C30_TracesOnOneScale ==
    \A t \in traces :
        /\ DrawnInTab2(t) => OnOneScale(t, garch_results, garch_forecast)
        /\ DrawnInTab3(t) => OnOneScale(t, egarch_results, egarch_forecast)

====
